---- MODULE Spec2Model ----
(***************************************************************************)
(* The hash-chained trust ledger of trustos-poc-2025.                      *)
(*                                                                         *)
(*  - the in-memory ledger of app/api/trust/dao/submit/route.ts            *)
(*    (globalThis.__TRUST_LEDGER__, mirrored to .data/trust_ledger.jsonl), *)
(*  - the file ledger of the ledger route (data/ledger.jsonl),             *)
(*  - the verifier of app/api/trust/verify/route.ts and the page's         *)
(*    verifyMock.                                                          *)
(*                                                                         *)
(* JavaScript values are tagged tuples; an object is the ordered list of   *)
(* its own properties, because JSON.stringify writes them in insertion     *)
(* order.  A JSON text is modelled by the value it denotes (tag "json"):   *)
(* two texts are equal exactly when they denote the same keys, in the      *)
(* same order, with the same JSON values.  SHA-256 is modelled as an       *)
(* injective function of the text (tag "hex").                             *)
(***************************************************************************)
EXTENDS Integers, Sequences, FiniteSets, TLC

VARIABLES
    epoch,      \* number of restarts of the server process so far
    now,        \* the wall clock
    writable,   \* whether the deployment's storage accepts writes
    store,      \* globalThis.__TRUST_LEDGER__ of the running process
    trustFile,  \* lines of .data/trust_ledger.jsonl
    req,        \* the in-flight requests of the submit route
    resp,       \* the response the submit route sent last
    served,     \* number of ledger requests the server has accepted so far
    ledgerFile, \* lines of data/ledger.jsonl
    ledgerFileExists,   \* whether data/ledger.jsonl exists
    fresp,      \* the outcome of the ledger route's last request
    vreq,       \* the body of the last verify request
    vresp,      \* the response to it
    mreq,       \* the arguments of the last call of the page's verifyMock
    mresp,      \* its result
    page,       \* the state of the page component and its calls in flight
    sresp       \* the response a scoring route sent last

memVars == <<store, trustFile, req, resp>>
fileVars == <<ledgerFile, ledgerFileExists, fresp>>
verifyVars == <<vreq, vresp, mreq, mresp>>
pageVars == <<page, sresp>>
vars == <<epoch, now, writable, served, memVars, fileVars, verifyVars, pageVars>>

\* ---------------------------------------------------------------- bounds
MaxServed == 3      \* ledger requests over all process lifetimes
MaxRestarts == 1    \* restarts of the server process
MaxTime == 1        \* ticks of the clock
NumReqs == 2        \* requests in flight at once

Reqs == 1..NumReqs

\* ------------------------------------------------------------ JS values
Null == <<"null">>
Undef == <<"undefined">>
NaN == <<"nan">>
Num(n) == <<"num", n>>
Str(s) == <<"str", s>>
Bool(b) == <<"bool", b>>
Obj(props) == <<"obj", props>>
Arr(items) == <<"arr", items>>

IsObj(v) == v[1] = "obj"
IsArr(v) == v[1] = "arr"
IsNum(v) == v[1] = "num"

\* obj[k], undefined when obj has no own property k
Get(o, k) ==
    IF IsObj(o) /\ \E i \in 1..Len(o[2]) : o[2][i][1] = k
    THEN o[2][CHOOSE i \in 1..Len(o[2]) : o[2][i][1] = k][2]
    ELSE Undef

\* const { k, ...rest } = o : the other properties, in their order
Without(o, k) == Obj(SelectSeq(o[2], LAMBDA p : p[1] # k))

\* { ...o, k: v } for a key o does not have
Spread(o, k, v) == Obj(Append(o[2], <<k, v>>))

\* a ?? d
Nullish(v, d) == IF v = Null \/ v = Undef THEN d ELSE v

\* !v
Falsy(v) ==
    \/ v \in {Null, Undef, NaN, Bool(FALSE), Num(0), Str("")}

\* Number(v), for the values the model draws
ToNumber(v) ==
    CASE v[1] = "num" -> v
      [] v[1] = "null" -> Num(0)
      [] v[1] = "bool" -> IF v[2] THEN Num(1) ELSE Num(0)
      [] OTHER -> NaN

MathMax(a, b) == IF a = NaN \/ b = NaN THEN NaN ELSE IF a[2] >= b[2] THEN a ELSE b
MathMin(a, b) == IF a = NaN \/ b = NaN THEN NaN ELSE IF a[2] <= b[2] THEN a ELSE b
Plus(a, b) == IF a = NaN \/ b = NaN THEN NaN ELSE Num(a[2] + b[2])
Minus(a, b) == IF a = NaN \/ b = NaN THEN NaN ELSE Num(a[2] - b[2])
GreaterEq(a, b) == IF a = NaN \/ b = NaN THEN FALSE ELSE a[2] >= b[2]

\* ----------------------------------------------------------------- JSON
RECURSIVE Render(_)
\* The JSON value JSON.stringify writes for v: NaN becomes null, a property
\* whose value is undefined is left out, an undefined array item is null.
Render(v) ==
    CASE v[1] = "nan" -> Null
      [] v[1] = "obj" ->
            LET kept == SelectSeq(v[2], LAMBDA p : p[2] # Undef)
            IN  Obj([i \in 1..Len(kept) |-> <<kept[i][1], Render(kept[i][2])>>])
      [] v[1] = "arr" ->
            Arr([i \in 1..Len(v[2]) |->
                    IF v[2][i] = Undef THEN Null ELSE Render(v[2][i])])
      [] OTHER -> v

JSONstringify(v) == <<"json", Render(v)>>

\* sha256Hex of the submit and verify routes: '0x' + hex digest
sha256Hex(input) == <<"hex", "0x", input>>

\* Object.keys(obj).sort() orders keys by code unit; the keys of the model
\* in that order
SortedKeys ==
    << "address", "approved", "createdAt", "daoPayload", "daoResult", "entry",
       "hash", "height", "kind", "ledgerId", "no", "prevHash", "quorum",
       "reason", "schema", "score", "scorePayload", "timeline", "ts",
       "txHash", "valid", "yes" >>

KeyRank(k) == CHOOSE i \in 1..Len(SortedKeys) : SortedKeys[i] = k

RECURSIVE StableRender(_)
StableRender(v) ==
    CASE v[1] = "obj" ->
            LET sorted == SortSeq(v[2], LAMBDA a, b : KeyRank(a[1]) < KeyRank(b[1]))
            IN  Obj([i \in 1..Len(sorted) |-> <<sorted[i][1], StableRender(sorted[i][2])>>])
      [] v[1] = "arr" -> Arr([i \in 1..Len(v[2]) |-> StableRender(v[2][i])])
      [] OTHER -> Render(v)

stableStringify(obj) == <<"json", StableRender(obj)>>

\* sha256Hex of the ledger route: the hex digest, without '0x'
sha256HexPlain(input) == <<"hex", "", input>>

\* ------------------------------------------------------ the submit route
Quorum == 60
TimelineN == 20

\* Math.floor(Math.random() * 10) - 5
Noise == {4}
\* randomHex(64)
TxHashes == {Str("0xtx")}
\* request bodies
Bodies ==
    { Obj(<< <<"address", Str("0xabc")>>, <<"score", Num(75)>> >>),
      Obj(<< <<"score", Str("high")>> >>) }

DaoResultOf(score, noise, txHash) ==
    LET baseYes == MathMax(Num(30), MathMin(Num(90), score))
        yes == MathMax(Num(0), MathMin(Num(100), Plus(baseYes, Num(noise))))
        no == MathMax(Num(0), MathMin(Num(100), Minus(Num(100), yes)))
        approved == GreaterEq(yes, Num(Quorum))
    IN  Obj(<< <<"approved", Bool(approved)>>, <<"txHash", txHash>>,
               <<"yes", yes>>, <<"no", no>>, <<"quorum", Num(Quorum)>> >>)

\* store.length ? store[store.length - 1] : null
LastOf(s) == IF Len(s) > 0 THEN s[Len(s)] ELSE Null

NextHeight_NoIncrement(last) == IF last # Null THEN Get(last, "height") ELSE Num(1)

\* last ? last.height + 1 : 1
NextHeight(last) == IF last # Null THEN Plus(Get(last, "height"), Num(1)) ELSE Num(1)

NextPrevHash_WrongField(last) == IF last # Null THEN Get(last, "prevHash") ELSE Null

\* last ? last.hash : null
NextPrevHash(last) == IF last # Null THEN Get(last, "hash") ELSE Null

\* `ledger_${timestamp to the second}_${height padded}`
LedgerId(t, height) == <<"ledgerId", t, height>>

\* new Date().toISOString()
IsoString(t) == <<"iso", t>>

BuildCore(last, address, score, daoResult, t) ==
    Obj(<< <<"kind", Str("trust_kernel_v1")>>,
           <<"ledgerId", LedgerId(t, NextHeight(last))>>,
           <<"height", NextHeight(last)>>,
           <<"prevHash", NextPrevHash(last)>>,
           <<"address", address>>,
           <<"score", score>>,
           <<"daoResult", daoResult>>,
           <<"createdAt", IsoString(t)>> >>)

Seal_Stable(core) == Spread(core, "hash", sha256Hex(stableStringify(core)))

Seal_Unhashed(core) == core

\* { ...core, hash: sha256Hex(JSON.stringify(core)) }
Seal(core) == Spread(core, "hash", sha256Hex(JSONstringify(core)))

\* store[store.length - 1], read in the synchronous block that pushes
LastEntry_Stale ==
    LastOf(SelectSeq(store, LAMBDA e : \A r \in Reqs : req[r].entry # e))

LastEntry == LastOf(store)

\* store.push(entry)
Push_Unshift(s, e) == <<e>> \o s

Push(s, e) == Append(s, e)

Slice_First(s, n) == IF Len(s) <= n THEN s ELSE SubSeq(s, 1, n)

\* store.slice(-20)
Slice(s, n) == IF Len(s) <= n THEN s ELSE SubSeq(s, Len(s) - n + 1, Len(s))

Idle == [pc |-> "idle", entry |-> Undef, fileOk |-> FALSE]

\* the useState initial values; no call of the page is in flight
PageInit ==
    [address |-> Null, score |-> Null, daoResult |-> Null, ledger |-> Null,
     timeline |-> <<>>, verify |-> Null,
     scoreCall |-> Undef, daoCall |-> Undef, minted |-> 0, log |-> ""]

Init ==
    /\ epoch = 0
    /\ now = 0
    /\ writable \in BOOLEAN
    /\ store = <<>>
    /\ trustFile = <<>>
    /\ req = [r \in Reqs |-> Idle]
    /\ resp = Undef
    /\ served = 0
    /\ ledgerFile = <<>>
    /\ ledgerFileExists = FALSE
    /\ fresp = Undef
    /\ vreq = Undef
    /\ vresp = Undef
    /\ mreq = Undef
    /\ mresp = Undef
    /\ page = PageInit
    /\ sresp = Undef

CommitFrom_ArrivalClock(r, bodies, limit) ==
    /\ req[r].pc = "idle"
    /\ served < limit
    /\ served' = served + 1
    /\ \E body \in bodies, noise \in Noise, txHash \in TxHashes, arrived \in 0..now :
        LET address == Nullish(Get(body, "address"), Null)
            score == ToNumber(Nullish(Get(body, "score"), Num(0)))
            daoResult == DaoResultOf(score, noise, txHash)
            entry == Seal(BuildCore(LastEntry, address, score, daoResult, arrived))
        IN  /\ store' = Push(store, entry)
            /\ req' = [req EXCEPT ![r] =
                          [pc |-> "mkdir", entry |-> entry, fileOk |-> FALSE]]
    /\ UNCHANGED <<epoch, now, writable, trustFile, resp, fileVars, verifyVars, pageVars>>

\* POST lines 56-98 and the call of appendToFile up to its first await: the
\* body is parsed, the entry is built from the tail and pushed.  The request
\* is one of the first `limit` the server accepts, its body one of `bodies`.
CommitFrom(r, bodies, limit) ==
    /\ req[r].pc = "idle"
    /\ served < limit
    /\ served' = served + 1
    /\ \E body \in bodies, noise \in Noise, txHash \in TxHashes :
        LET address == Nullish(Get(body, "address"), Null)
            score == ToNumber(Nullish(Get(body, "score"), Num(0)))
            daoResult == DaoResultOf(score, noise, txHash)
            entry == Seal(BuildCore(LastEntry, address, score, daoResult, now))
        IN  /\ store' = Push(store, entry)
            /\ req' = [req EXCEPT ![r] =
                          [pc |-> "mkdir", entry |-> entry, fileOk |-> FALSE]]
    /\ UNCHANGED <<epoch, now, writable, trustFile, resp, fileVars, verifyVars, pageVars>>

Commit(r) == CommitFrom(r, Bodies, MaxServed)

\* appendToFile: await fs.mkdir(...) settles
MkdirSettles(r) ==
    /\ req[r].pc = "mkdir"
    /\ req' = [req EXCEPT ![r].pc = IF writable THEN "appendFile" ELSE "respond"]
    /\ UNCHANGED <<epoch, now, writable, store, trustFile, resp, served, fileVars, verifyVars, pageVars>>

AppendFileSettles_WritesTail(r) ==
    /\ req[r].pc = "appendFile"
    /\ IF writable
       THEN /\ trustFile' = Append(trustFile, JSONstringify(LastOf(store)))
            /\ req' = [req EXCEPT ![r].pc = "respond", ![r].fileOk = TRUE]
       ELSE /\ trustFile' = trustFile
            /\ req' = [req EXCEPT ![r].pc = "respond"]
    /\ UNCHANGED <<epoch, now, writable, store, resp, served, fileVars, verifyVars, pageVars>>

\* appendToFile: await fs.appendFile(FILE_PATH, line + '\n') settles
AppendFileSettles(r) ==
    /\ req[r].pc = "appendFile"
    /\ IF writable
       THEN /\ trustFile' = Append(trustFile, JSONstringify(req[r].entry))
            /\ req' = [req EXCEPT ![r].pc = "respond", ![r].fileOk = TRUE]
       ELSE /\ trustFile' = trustFile
            /\ req' = [req EXCEPT ![r].pc = "respond"]
    /\ UNCHANGED <<epoch, now, writable, store, resp, served, fileVars, verifyVars, pageVars>>

\* POST lines 104-111: the timeline is cut and the response is sent
Respond(r) ==
    /\ req[r].pc = "respond"
    /\ resp' = Render(Obj(<< <<"ok", Bool(TRUE)>>,
                              <<"entry", req[r].entry>>,
                              <<"timeline", Arr(Slice(store, TimelineN))>>,
                              <<"storage", Obj(<< <<"memory", Bool(TRUE)>>,
                                                  <<"file", Bool(req[r].fileOk)>> >>)>> >>))
    /\ req' = [req EXCEPT ![r] = Idle]
    /\ UNCHANGED <<epoch, now, writable, store, trustFile, served, fileVars, verifyVars, pageVars>>

\* The server process is stopped and started again: globalThis and the
\* requests in flight are gone, the files stay.
Restart ==
    /\ epoch < MaxRestarts
    /\ epoch' = epoch + 1
    /\ store' = <<>>
    /\ req' = [r \in Reqs |-> Idle]
    /\ UNCHANGED <<now, writable, trustFile, resp, served, fileVars, verifyVars, pageVars>>

Tick ==
    /\ now < MaxTime
    /\ now' = now + 1
    /\ UNCHANGED <<epoch, writable, served, memVars, fileVars, verifyVars, pageVars>>

StorageChanges ==
    /\ writable' = ~writable
    /\ UNCHANGED <<epoch, now, served, memVars, fileVars, verifyVars, pageVars>>

\* ------------------------------------------------------ the ledger route
\* the handler raised: the framework answers 500
Threw == <<"threw">>

LedgerBodies ==
    { Obj(<<>>),
      Obj(<< <<"address", Str("0xabc")>>,
             <<"scorePayload", Obj(<< <<"score", Num(75)>> >>)>>,
             <<"daoPayload", Obj(<< <<"approved", Bool(TRUE)>> >>)>> >>) }

\* ensureLedgerFile creates the directory and the empty file when they are
\* missing; that write raises when the storage is not writable
EnsureThrows == ~ledgerFileExists /\ ~writable

EnsureLedgerFile_Truncates(lines, exists) == <<>>

\* ensureLedgerFile, when it does not raise: the lines of the file after it,
\* which is written empty only when it does not exist
EnsureLedgerFile(lines, exists) == IF exists THEN lines ELSE <<>>

\* JSON.parse(line): the value of a well-formed line, raises on any other
IsJson(line) == line[1] = "json"

\* The reading the last parsable line would give (not what getLastEntry does)
RECURSIVE GetLastEntry_LastParsed(_)
GetLastEntry_LastParsed(lines) ==
    IF Len(lines) = 0 THEN Null
    ELSE IF IsJson(lines[Len(lines)]) THEN lines[Len(lines)][2]
    ELSE GetLastEntry_LastParsed(SubSeq(lines, 1, Len(lines) - 1))

\* getLastEntry after ensureLedgerFile
GetLastEntry(lines) ==
    IF Len(lines) = 0 THEN Null
    ELSE IF IsJson(lines[Len(lines)]) THEN lines[Len(lines)][2] ELSE Null

\* last?.hash ?? 'GENESIS'
LedgerPrevHash(last) == Nullish(Get(last, "hash"), Str("GENESIS"))

BuildLedgerEntry(last, body, t) ==
    Obj(<< <<"schema", Str("trustos-ledger-v1")>>,
           <<"ts", IsoString(t)>>,
           <<"address", Nullish(Get(body, "address"), Null)>>,
           <<"scorePayload", Nullish(Get(body, "scorePayload"), Null)>>,
           <<"daoPayload", Nullish(Get(body, "daoPayload"), Null)>>,
           <<"prevHash", LedgerPrevHash(last)>> >>)

\* { ...entry, hash: sha256Hex(stableStringify(entry)) }
SealLedgerEntry(entry) == Spread(entry, "hash", sha256HexPlain(stableStringify(entry)))

\* A line the file ends in without its newline: the start of a record whose
\* write was cut short.
TornLine == <<"torn">>

\* A terminated line that is no JSON text: a fragment followed by a record.
MergedLine == <<"merged">>

\* fs.appendFileSync(LEDGER_FILE, JSON.stringify(stored) + '\n'): the bytes go
\* after the last byte of the file, so they start a line only when the file
\* ends with a newline.
AppendRecord(lines, record) ==
    IF Len(lines) > 0 /\ lines[Len(lines)] = TornLine
    THEN [lines EXCEPT ![Len(lines)] = MergedLine]
    ELSE Append(lines, record)

\* POST of the ledger route: one synchronous block after the body is parsed.
\* The request is one of the first `limit` the server accepts, its body one
\* of `bodies`.
LedgerPostFrom(bodies, limit) ==
    /\ served < limit
    /\ served' = served + 1
    /\ \E body \in bodies :
        IF ~writable
        THEN \* ensureLedgerFile or appendFileSync raises; nothing catches it
             /\ fresp' = Threw
             /\ UNCHANGED <<ledgerFile, ledgerFileExists>>
        ELSE LET lines == EnsureLedgerFile(ledgerFile, ledgerFileExists)
                 stored == SealLedgerEntry(BuildLedgerEntry(GetLastEntry(lines), body, now))
             IN  /\ ledgerFileExists' = TRUE
                 /\ ledgerFile' = AppendRecord(lines, JSONstringify(stored))
                 /\ fresp' = Render(Obj(<< <<"ok", Bool(TRUE)>>, <<"entry", stored>> >>))
    /\ UNCHANGED <<epoch, now, writable, memVars, verifyVars, pageVars>>

LedgerPost == LedgerPostFrom(LedgerBodies, MaxServed)

\* POST of the ledger route whose appendFileSync is cut short after some of
\* the record's bytes (the volume fills up): the call raises and nothing
\* catches it; the bytes already written stay in the file.
LedgerPostCutShort ==
    /\ served < MaxServed
    /\ served' = served + 1
    /\ writable
    /\ LET lines == EnsureLedgerFile(ledgerFile, ledgerFileExists)
       IN  /\ ledgerFileExists' = TRUE
           /\ ledgerFile' = IF Len(lines) > 0 /\ lines[Len(lines)] = TornLine
                            THEN lines
                            ELSE Append(lines, TornLine)
           /\ fresp' = Threw
    /\ UNCHANGED <<epoch, now, writable, memVars, verifyVars, pageVars>>

LedgerLastN == 20

\* lines.slice(-20).map(JSON.parse or null).filter(Boolean)
LedgerItems(lines) ==
    LET last20 == Slice(lines, LedgerLastN)
        parsed == [i \in 1..Len(last20) |->
                        IF IsJson(last20[i]) THEN last20[i][2] ELSE Null]
    IN  SelectSeq(parsed, LAMBDA v : ~Falsy(v))

\* GET of the ledger route, one of the first `limit` requests
LedgerGetWithin(limit) ==
    /\ served < limit
    /\ served' = served + 1
    /\ IF EnsureThrows
       THEN /\ fresp' = Threw
            /\ UNCHANGED <<ledgerFile, ledgerFileExists>>
       ELSE LET lines == EnsureLedgerFile(ledgerFile, ledgerFileExists)
            IN  /\ ledgerFileExists' = TRUE
                /\ ledgerFile' = lines
                /\ fresp' = Render(Obj(<< <<"ok", Bool(TRUE)>>,
                                          <<"items", Arr(LedgerItems(lines))>> >>))
    /\ UNCHANGED <<epoch, now, writable, memVars, verifyVars, pageVars>>

LedgerGet == LedgerGetWithin(MaxServed)

\* ------------------------------------------------------ the verify route
\* timeline.find((x) => x.hash === h): reading .hash of null or undefined
\* raises before a later item can match
FindThrows(items, h) ==
    \E i \in 1..Len(items) :
        /\ items[i] \in {Null, Undef}
        /\ \A j \in 1..(i - 1) : Get(items[j], "hash") # h

Found(items, h) == \E i \in 1..Len(items) : Get(items[i], "hash") = h

ChainChecked(entry, timeline) ==
    ~Falsy(timeline) /\ IsArr(timeline) /\ ~Falsy(Get(entry, "prevHash"))

\* let chainOk = true; ... if (!prev) chainOk = false
ChainOk(entry, timeline) ==
    IF ChainChecked(entry, timeline)
    THEN Found(timeline[2], Get(entry, "prevHash"))
    ELSE TRUE

ChainReason_None(entry, timeline) == Null

\* let chainReason = null; ... chainReason = 'prevHash not found in timeline'
ChainReason(entry, timeline) ==
    IF ChainOk(entry, timeline) THEN Null ELSE Str("prevHash not found in timeline")

HashOk_FormatOnly(entry) == Get(entry, "hash")[1] = "hex"

\* const { hash, ...core } = entry; sha256Hex(JSON.stringify(core)) === hash
HashOk(entry) == sha256Hex(JSONstringify(Without(entry, "hash"))) = Get(entry, "hash")

\* POST of the verify route, as a function of the parsed body
Verify(body, t) ==
    LET entry == Get(body, "entry")
        timeline == Get(body, "timeline")
        hashOk == HashOk(entry)
        chainOk == ChainOk(entry, timeline)
        valid == hashOk /\ chainOk
    IN  IF Falsy(entry) \/ Falsy(Get(entry, "hash"))
        THEN Obj(<< <<"ok", Bool(FALSE)>>, <<"valid", Bool(FALSE)>>,
                    <<"reason", Str("Missing entry/hash")>> >>)
        ELSE IF ChainChecked(entry, timeline) /\ FindThrows(timeline[2], Get(entry, "prevHash"))
        THEN Threw
        ELSE Obj(<< <<"ok", Bool(TRUE)>>,
                    <<"valid", Bool(valid)>>,
                    <<"hash", Get(entry, "hash")>>,
                    <<"recomputed", sha256Hex(JSONstringify(Without(entry, "hash")))>>,
                    <<"hashOk", Bool(hashOk)>>,
                    <<"chainOk", Bool(chainOk)>>,
                    <<"reason", IF valid THEN Null
                                ELSE IF hashOk THEN ChainReason(entry, timeline)
                                ELSE Str("Hash mismatch")>>,
                    <<"verifiedAt", IsoString(t)>> >>)

\* ------------------------------------------------- the page's verifyMock
\* typeof hash === 'string' && hash.startsWith('0x') && hash.length >= 10
MockHashOk(entry) ==
    LET h == Get(entry, "hash") IN h[1] = "hex" /\ h[2] = "0x"

MockChainOk(entry, chainPrev) ==
    IF Get(entry, "height") = Num(1)
    THEN Get(entry, "prevHash") = Null
    ELSE /\ ~Falsy(chainPrev)
         /\ Get(entry, "prevHash") = Get(chainPrev, "hash")
         /\ Get(entry, "height") = Plus(ToNumber(Get(chainPrev, "height")), Num(1))

verifyMock(entry, chainPrev) ==
    LET hashOk == MockHashOk(entry)
        chainOk == MockChainOk(entry, chainPrev)
        ok == hashOk /\ chainOk
    IN  Obj(<< <<"ok", Bool(ok)>>, <<"valid", Bool(ok)>>,
               <<"hashOk", Bool(hashOk)>>, <<"chainOk", Bool(chainOk)>>,
               <<"reason", IF ok THEN Undef
                           ELSE IF ~hashOk THEN Str("hash invalid (mock)")
                           ELSE Str("chain linkage invalid (mock)")>> >>)

\* --------------------------------------------------- verify requests
\* o with property k set to v, in place
SetField(o, k, v) ==
    Obj([i \in 1..Len(o[2]) |-> IF o[2][i][1] = k THEN <<k, v>> ELSE o[2][i]])

\* the hash recomputed by whoever forged the entry
Reseal(e) == SetField(e, "hash", sha256Hex(JSONstringify(Without(e, "hash"))))

\* the entries of the store as a client received them
WireEntries == {Render(store[i]) : i \in 1..Len(store)}

MaxHeight == 3

\* one field of a received entry changed
Edited(e) ==
    {SetField(e, "height", Num(h)) : h \in 1..MaxHeight}
    \cup {SetField(e, "prevHash", x) :
            x \in {Null, Str("0xdead")} \cup {Get(w, "hash") : w \in WireEntries}}
    \cup {SetField(e, "score", Num(1))}

\* one of the other body fields of a received entry changed
Tampered(e) ==
    { SetField(e, "kind", Str("trust_kernel_v2")),
      SetField(e, "ledgerId", Str("ledger_19700101000000_000001")),
      SetField(e, "address", Str("0xevil")),
      SetField(e, "daoResult", SetField(Get(e, "daoResult"), "approved",
                    Bool(Get(Get(e, "daoResult"), "approved") # Bool(TRUE)))),
      SetField(e, "createdAt", Str("1970-01-01T00:00:00.000Z")) }

\* the same properties listed in the opposite order
Reversed(o) == Obj([i \in 1..Len(o[2]) |-> o[2][Len(o[2]) + 1 - i]])

Candidates ==
    {Undef}
    \cup WireEntries
    \cup {Reversed(e) : e \in WireEntries}
    \cup UNION {Tampered(e) : e \in WireEntries}
    \cup {Without(e, "hash") : e \in WireEntries}
    \cup UNION {Edited(e) : e \in WireEntries}
    \cup UNION {{Reseal(x) : x \in Edited(e)} : e \in WireEntries}

Windows ==
    {Undef, Arr(<<>>), Arr([i \in 1..Len(store) |-> Render(store[i])])}
    \cup {Arr(<<w>>) : w \in WireEntries}

VerifyBodies ==
    {Render(Obj(<< <<"entry", c>>, <<"timeline", w>> >>)) : c \in Candidates, w \in Windows}

\* no verification has been asked for yet
Unverified == vreq = Undef /\ mreq = Undef

VerifyPost_Records ==
    /\ Unverified
    /\ \E body \in VerifyBodies :
        /\ vreq' = body
        /\ vresp' = Verify(body, now)
        /\ store' = IF Get(Verify(body, now), "valid") = Bool(TRUE)
                    THEN Push(store, Get(body, "entry")) ELSE store
    /\ UNCHANGED <<epoch, now, writable, served, trustFile, req, resp, fileVars, mreq, mresp, pageVars>>

\* One verify call per behaviour: the route keeps no state, so calls are
\* independent of each other.
VerifyPost ==
    /\ Unverified
    /\ \E body \in VerifyBodies :
        /\ vreq' = body
        /\ vresp' = Verify(body, now)
    /\ UNCHANGED <<epoch, now, writable, served, memVars, fileVars, mreq, mresp, pageVars>>

\* the entries verifyMock is given: typed LedgerEntry, so always an object
MockTargets == Candidates \ {Undef}
MockPrevs == {Null} \cup WireEntries

\* One call of verifyMock(target, chainPrev), as verifyLedger makes it.
MockVerify ==
    /\ Unverified
    /\ \E target \in MockTargets, chainPrev \in MockPrevs :
        /\ mreq' = Obj(<< <<"entry", target>>, <<"chainPrev", chainPrev>> >>)
        /\ mresp' = verifyMock(target, chainPrev)
    /\ UNCHANGED <<epoch, now, writable, served, memVars, fileVars, vreq, vresp, pageVars>>

\* A client sends the entry and the timeline of the response it received
\* to the verify route.
VerifyResponse ==
    /\ Unverified
    /\ resp # Undef
    /\ LET body == Render(Obj(<< <<"entry", Get(resp, "entry")>>,
                                 <<"timeline", Get(resp, "timeline")>> >>))
       IN  /\ vreq' = body
           /\ vresp' = Verify(body, now)
    /\ UNCHANGED <<epoch, now, writable, served, memVars, fileVars, mreq, mresp, pageVars>>

\* Bodies that are JSON but not an entry and a list of entries: a candidate
\* that is no object or has an empty hash, a window that is no array or
\* holds items that are no entries.
RawCandidates ==
    {Undef, Null, Str("entry")}
    \cup WireEntries
    \cup {Without(e, "hash") : e \in WireEntries}
    \cup {SetField(e, "hash", Str("")) : e \in WireEntries}

RawWindows ==
    {Undef, Str("none"), Arr(<<>>), Arr(<<Null>>), Arr(<<Num(5)>>)}
    \cup {Arr(<<w, Null>>) : w \in WireEntries}
    \cup {Arr(<<Null, w>>) : w \in WireEntries}

RawBodies ==
    {Render(Obj(<< <<"entry", c>>, <<"timeline", w>> >>)) :
        c \in RawCandidates, w \in RawWindows}

\* One verify call with whatever JSON a client may send.
VerifyPostRaw ==
    /\ Unverified
    /\ \E body \in RawBodies :
        /\ vreq' = body
        /\ vresp' = Verify(body, now)
    /\ UNCHANGED <<epoch, now, writable, served, memVars, fileVars, mreq, mresp, pageVars>>

NextVerifyRaw ==
    \/ Unverified /\ Commit(1)
    \/ Unverified /\ MkdirSettles(1)
    \/ Unverified /\ AppendFileSettles(1)
    \/ Unverified /\ Respond(1)
    \/ Unverified /\ Tick
    \/ VerifyPostRaw

SpecVerifyRaw == Init /\ [][NextVerifyRaw]_vars

\* A ledger built by one client at a time, then one verification.
NextVerify ==
    \/ Unverified /\ Commit(1)
    \/ Unverified /\ MkdirSettles(1)
    \/ Unverified /\ AppendFileSettles(1)
    \/ Unverified /\ Respond(1)
    \/ Unverified /\ Tick
    \/ VerifyPost
    \/ MockVerify

SpecVerify == Init /\ [][NextVerify]_vars

Next ==
    \/ \E r \in Reqs : Commit(r)
    \/ \E r \in Reqs : MkdirSettles(r)
    \/ \E r \in Reqs : AppendFileSettles(r)
    \/ \E r \in Reqs : Respond(r)
    \/ Restart
    \/ Tick
    \/ StorageChanges
    \/ LedgerPost
    \/ LedgerGet

Spec == Init /\ [][Next]_vars

\* The submit route alone.  The file operations a request awaits settle:
\* Node's event loop runs the continuation of every promise that can settle.
NextSubmit ==
    \/ \E r \in Reqs : Commit(r)
    \/ \E r \in Reqs : MkdirSettles(r)
    \/ \E r \in Reqs : AppendFileSettles(r)
    \/ \E r \in Reqs : Respond(r)
    \/ Restart
    \/ StorageChanges

SpecFair ==
    /\ Init
    /\ [][NextSubmit]_vars
    /\ \A r \in Reqs : WF_vars(MkdirSettles(r)) /\ WF_vars(AppendFileSettles(r))

\* A long run on one of the two routes: more requests than a timeline
\* holds.  On the submit route the first request is served alone; the second
\* (slot 1) is slow to finish, and while it is in flight the requests of
\* other clients are served one after another (slot 2).  On the ledger route
\* POSTs and GETs follow each other.
BurstLen == 22
BurstBodies == {Obj(<< <<"address", Str("0xabc")>>, <<"score", Num(75)>> >>)}

NextBurst ==
    \/ Unverified /\ served = 0 /\ CommitFrom(2, BurstBodies, BurstLen)
    \/ Unverified /\ Len(store) = 1 /\ req[2].pc = "idle" /\ CommitFrom(1, BurstBodies, BurstLen)
    \/ Unverified /\ Len(store) > 1 /\ req[1].pc # "idle" /\ CommitFrom(2, BurstBodies, BurstLen)
    \/ store = <<>> /\ LedgerPostFrom(BurstBodies, BurstLen)
    \/ store = <<>> /\ served > 0 /\ LedgerGetWithin(BurstLen)
    \/ \E r \in Reqs : Unverified /\ MkdirSettles(r)
    \/ \E r \in Reqs : Unverified /\ AppendFileSettles(r)
    \/ \E r \in Reqs : Unverified /\ Respond(r)
    \/ VerifyResponse

SpecBurst == Init /\ [][NextBurst]_vars

\* The ledger route on a volume that can fill up in the middle of a write.
NextTorn ==
    \/ LedgerPost
    \/ LedgerPostCutShort
    \/ LedgerGet
    \/ Tick

SpecTorn == Init /\ [][NextTorn]_vars

\* ------------------------------------------------------------ the scorers
clamp_NoCeiling(n, min, max) == IF n < min THEN min ELSE n

\* Math.max(min, Math.min(max, n))
clamp(n, min, max) == IF n < min THEN min ELSE IF n > max THEN max ELSE n

\* Math.round(a / b) for b > 0: the nearest integer, halves upwards
Round(a, b) == (2 * a + b) \div (2 * b)

\* balances are counted in millionths of an ether
MicroEth == 1000000

\* the heuristic scorer
scoreFromHeuristics(isValidAddress, isContract, balanceEth, txCount) ==
    LET forAddress == IF isValidAddress THEN 10 ELSE -30
        forContract == IF isContract = Bool(TRUE) THEN -10
                       ELSE IF isContract = Bool(FALSE) THEN 8 ELSE 0
        forBalance == IF ~IsNum(balanceEth) THEN 0
                      ELSE IF balanceEth[2] >= 10 * MicroEth THEN 18
                      ELSE IF balanceEth[2] >= MicroEth THEN 12
                      ELSE IF 10 * balanceEth[2] >= MicroEth THEN 6
                      ELSE IF 100 * balanceEth[2] >= MicroEth THEN 2
                      ELSE 0
        forTxCount == IF ~IsNum(txCount) THEN 0
                      ELSE IF txCount[2] >= 500 THEN 22
                      ELSE IF txCount[2] >= 100 THEN 16
                      ELSE IF txCount[2] >= 20 THEN 10
                      ELSE IF txCount[2] >= 5 THEN 6
                      ELSE IF txCount[2] >= 1 THEN 2
                      ELSE 0
    IN  clamp(40 + forAddress + forContract + forBalance + forTxCount, 0, 100)

\* what the chain reports of an address: balance, transaction count, code
Balances == {Num(0), Num(5000), Num(50000), Num(500000), Num(MicroEth),
             Num(2 * MicroEth), Num(10 * MicroEth)}
TxCounts == {Num(0), Num(1), Num(5), Num(20), Num(100), Num(500)}
NoFeatures == [isContract |-> Null, balanceEth |-> Null, txCount |-> Null]
Features ==
    {NoFeatures} \cup
    {[isContract |-> Bool(c), balanceEth |-> b, txCount |-> t] :
        c \in BOOLEAN, b \in Balances, t \in TxCounts}

\* POST of the heuristic score route: an invalid or missing address is scored
\* without features, a failing RPC leaves the features null
HeuristicScorePost ==
    /\ \E isValid \in BOOLEAN, f \in Features :
        /\ ~isValid => f = NoFeatures
        /\ sresp' = Obj(<< <<"ok", Bool(TRUE)>>,
                           <<"score", Num(scoreFromHeuristics(isValid, f.isContract,
                                                              f.balanceEth, f.txCount))>>,
                           <<"rpcOk", Bool(f # NoFeatures)>> >>)
    /\ UNCHANGED <<epoch, now, writable, served, memVars, fileVars, verifyVars, page>>

\* pseudo01(seed) = (x % 10_000) / 10_000, in ten-thousandths
Pseudo01 == {0, 2500, 5000, 9600, 9999}

\* Math.round(clamp(Math.log10(txCount + 1) / Math.log10(300 + 1), 0, 1) * 900)
\* for the transaction counts of TxCounts
Scaled900(txCount) ==
    CASE txCount = 0 -> 0
      [] txCount = 1 -> 109
      [] txCount = 5 -> 283
      [] txCount = 20 -> 480
      [] txCount = 100 -> 728
      [] txCount = 500 -> 900

estimateWalletAgeDays(jitter, txCount, balanceEth) ==
    IF txCount = Null THEN 30 + Round(jitter * 90, 10000)
    ELSE IF txCount = Num(0)
    THEN (IF ~Falsy(balanceEth) /\ balanceEth[2] > 0 THEN 60 ELSE 25)
            + Round(jitter * 60, 10000)
    ELSE 90 + Scaled900(txCount[2]) + Round(jitter * 60, 10000)

\* the least txCount for which
\* Math.round(12 * clamp(Math.log10(txCount + 1) / Math.log10(200 + 1), 0, 1))
\* reaches 1, 2, ... 12
ActivitySteps == <<1, 1, 3, 4, 7, 11, 17, 27, 42, 66, 103, 161>>

\* the least balance for which
\* Math.round(10 * clamp(Math.log10(balanceEth + 1e-6 + 1) / Math.log10(2 + 1), 0, 1))
\* reaches 1, 2, ... 10
BalanceSteps == <<56467, 179147, 316074, 468900, 639474, 829855, 1042343,
                  1279507, 1544210, 1839652>>

StepsReached(steps, n) == Cardinality({k \in 1..Len(steps) : n >= steps[k]})

\* lines 108-139 of the trust score route
TrustScore(valid, f, pBase, pJitter, pStability) ==
    LET walletAgeDays == estimateWalletAgeDays(pJitter, f.txCount, f.balanceEth)
        base == 62 + Round(pBase * 10 - 50000, 10000)
        \* Math.round(weights.activity * f_activity), f_activity = 0.55 without txCount
        activity == IF f.txCount = Null THEN 7
                    ELSE StepsReached(ActivitySteps, f.txCount[2])
        \* Math.round(weights.balance * f_balance), f_balance = 0.45 without balance
        balance == IF f.balanceEth = Null THEN 5
                   ELSE StepsReached(BalanceSteps, f.balanceEth[2])
        \* Math.round(14 * clamp(walletAgeDays / 365, 0, 3) / 3)
        walletAge == Round(14 * clamp(walletAgeDays, 0, 3 * 365), 3 * 365)
        \* Math.round(6 * (0.55 + pseudo01 * 0.45))
        stability == Round(33000 + 27 * pStability, 10000)
        contractPenalty == IF f.isContract = Bool(TRUE) THEN -10 ELSE 0
        invalidPenalty == IF valid THEN 0 ELSE -45
    IN  clamp(base + walletAge + activity + balance + stability
                + contractPenalty + invalidPenalty, 0, 100)

\* POST of the trust score route
TrustScorePost ==
    /\ \E valid \in BOOLEAN, f \in Features,
          pBase \in Pseudo01, pJitter \in Pseudo01, pStability \in Pseudo01 :
        /\ ~valid => f = NoFeatures
        /\ sresp' = Obj(<< <<"ok", Bool(TRUE)>>,
                           <<"score", Num(TrustScore(valid, f, pBase, pJitter, pStability))>>,
                           <<"rpcOk", Bool(f # NoFeatures)>> >>)
    /\ UNCHANGED <<epoch, now, writable, served, memVars, fileVars, verifyVars, page>>

\* POST of /api/score: Math.floor(60 + Math.random() * 30), the random number
\* in ten-thousandths
ScoreRoute(body, random) ==
    IF Falsy(Get(body, "address"))
    THEN [ok |-> FALSE,
          json |-> Obj(<< <<"ok", Bool(FALSE)>>, <<"address", Str("")>>,
                          <<"score", Num(0)>> >>)]
    ELSE [ok |-> TRUE,
          json |-> Obj(<< <<"ok", Bool(TRUE)>>, <<"address", Get(body, "address")>>,
                          <<"score", Num(60 + ((30 * random) \div 10000))>> >>)]

ScoreBodies == {Obj(<<>>), Obj(<< <<"address", Str("0xabc")>> >>)}

MockScorePost ==
    /\ \E body \in ScoreBodies, random \in Pseudo01 :
        sresp' = ScoreRoute(body, random).json
    /\ UNCHANGED <<epoch, now, writable, served, memVars, fileVars, verifyVars, page>>

\* bodies of the submit route with a score of any size
AnyScoreBodies ==
    {Obj(<< <<"address", Str("0xabc")>>, <<"score", Num(n)>> >>) : n \in {-5, 75, 150}}

\* The scoring routes and the submit route share no state: the scores are
\* asked for before the first entry is appended.
NextScore ==
    \/ served = 0 /\ HeuristicScorePost
    \/ served = 0 /\ TrustScorePost
    \/ served = 0 /\ MockScorePost
    \/ CommitFrom(1, AnyScoreBodies, MaxServed)
    \/ MkdirSettles(1)
    \/ AppendFileSettles(1)
    \/ Respond(1)

SpecScore == Init /\ [][NextScore]_vars

\* --------------------------------------------------------------- the page
\* randomHex(32): the n-th value drawn; no two draws give the same value
randomHex(n) == <<"hex", "0x", <<"random", n>>>>

\* entries the page builds over all its timelines
MaxMinted == 4

\* what /api/dao/approve answers with
DaoResults == {Obj(<< <<"approved", Bool(TRUE)>> >>), Obj(<< <<"approved", Bool(FALSE)>> >>)}

buildLedgerEntry_SameHeight(address, score, daoResult, prev, t, n) ==
    LET height == IF ~Falsy(prev) THEN Get(prev, "height") ELSE Num(1)
        prevHash == IF ~Falsy(prev) THEN Get(prev, "hash") ELSE Null
    IN  Obj(<< <<"kind", Str("trust_kernel_v1")>>,
               <<"ledgerId", <<"ledgerId", t, height>> >>,
               <<"height", height>>,
               <<"prevHash", prevHash>>,
               <<"address", address>>,
               <<"score", score>>,
               <<"daoResult", daoResult>>,
               <<"createdAt", IsoString(t)>>,
               <<"hash", randomHex(n)>> >>)

buildLedgerEntry(address, score, daoResult, prev, t, n) ==
    LET height == IF ~Falsy(prev) THEN Plus(Get(prev, "height"), Num(1)) ELSE Num(1)
        prevHash == IF ~Falsy(prev) THEN Get(prev, "hash") ELSE Null
    IN  Obj(<< <<"kind", Str("trust_kernel_v1")>>,
               <<"ledgerId", <<"ledgerId", t, height>> >>,
               <<"height", height>>,
               <<"prevHash", prevHash>>,
               <<"address", address>>,
               <<"score", score>>,
               <<"daoResult", daoResult>>,
               <<"createdAt", IsoString(t)>>,
               <<"hash", randomHex(n)>> >>)

PageCleared(p) ==
    [p EXCEPT !.score = Null, !.daoResult = Null, !.ledger = Null,
              !.timeline = <<>>, !.verify = Null]

resetLocalState_KeepsTimeline(p) ==
    [p EXCEPT !.score = Null, !.daoResult = Null, !.ledger = Null,
              !.verify = Null, !.log = "Local state reset."]

\* setScore(null) ... setVerify(null); addLog('Local state reset.')
resetLocalState(p) == [PageCleared(p) EXCEPT !.log = "Local state reset."]

PageFrame == UNCHANGED <<epoch, now, writable, served, memVars, fileVars, verifyVars>>

ResetClicked ==
    /\ page' = resetLocalState(page)
    /\ UNCHANGED sresp
    /\ PageFrame

\* eth_requestAccounts returns an account
connectWallet ==
    /\ page' = [page EXCEPT !.address = Str("0xabc"), !.verify = Null,
                            !.log = "Connected"]
    /\ UNCHANGED sresp
    /\ PageFrame

disconnectLocal ==
    /\ page' = [resetLocalState([page EXCEPT !.address = Null])
                    EXCEPT !.log = "Disconnected (local)."]
    /\ UNCHANGED sresp
    /\ PageFrame

\* generateTrustScore up to its fetch of /api/score
generateTrustScoreCalls ==
    /\ ~Falsy(page.address)
    /\ page.scoreCall = Undef
    /\ page' = [page EXCEPT !.scoreCall = Obj(<< <<"address", page.address>> >>),
                            !.log = "Calling /api/score ..."]
    /\ UNCHANGED sresp
    /\ PageFrame

\* generateTrustScore after the fetch: the route answers, or the call fails
generateTrustScoreReturns ==
    /\ page.scoreCall # Undef
    /\ \/ \E random \in {0, 9999} :
            LET res == ScoreRoute(page.scoreCall, random)
            IN  /\ sresp' = res.json
                /\ page' = IF res.ok
                           THEN [PageCleared(page) EXCEPT !.score = res.json,
                                                          !.scoreCall = Undef,
                                                          !.log = "AI trust score ok"]
                           ELSE [page EXCEPT !.scoreCall = Undef,
                                             !.log = "Score API HTTP"]
       \/ /\ page' = [page EXCEPT !.scoreCall = Undef, !.log = "Score error"]
          /\ UNCHANGED sresp
    /\ PageFrame

\* submitToDao up to its fetch of /api/dao/approve
submitToDaoCalls ==
    /\ ~Falsy(page.address)
    /\ Get(page.score, "ok") = Bool(TRUE)
    /\ IsNum(Get(page.score, "score"))
    /\ page.daoCall = Undef
    /\ page.minted < MaxMinted
    /\ page' = [page EXCEPT !.daoCall = Obj(<< <<"address", page.address>>,
                                                <<"score", Get(page.score, "score")>> >>),
                            !.log = "Submitting score to DAO (mock) ..."]
    /\ UNCHANGED sresp
    /\ PageFrame

\* submitToDao after the fetch: the entry is built from the last element of
\* the timeline as it is now and appended
submitToDaoReturns ==
    /\ page.daoCall # Undef
    /\ \/ \E dr \in DaoResults :
            LET prevLast == LastOf(page.timeline)
                nextEntry == buildLedgerEntry(Get(page.daoCall, "address"),
                                              Get(page.daoCall, "score"),
                                              dr, prevLast, now, page.minted + 1)
            IN  page' = [page EXCEPT !.daoResult = dr,
                                     !.ledger = nextEntry,
                                     !.verify = verifyMock(nextEntry, prevLast),
                                     !.timeline = Append(page.timeline, nextEntry),
                                     !.minted = page.minted + 1,
                                     !.daoCall = Undef,
                                     !.log = "Verify computed locally (mock)."]
       \/ page' = [page EXCEPT !.daoCall = Undef, !.log = "DAO API HTTP"]
    /\ UNCHANGED sresp
    /\ PageFrame

verifyLedger ==
    LET target == Nullish(page.ledger, LastOf(page.timeline))
        chainPrev == IF Len(page.timeline) < 2 THEN Null
                     ELSE page.timeline[Len(page.timeline) - 1]
    IN  /\ ~Falsy(target)
        /\ LET v == verifyMock(target, chainPrev)
           IN  page' = [page EXCEPT !.verify = v,
                                    !.log = IF Get(v, "ok") = Bool(TRUE)
                                            THEN "Verify: OK" ELSE "Verify: not OK"]
        /\ UNCHANGED sresp
        /\ PageFrame

\* The page keeps its ledger to itself and calls neither the submit route nor
\* its restart: either the page is used, or the server.
ServerUntouched == served = 0 /\ epoch = 0
PageUntouched == page = PageInit

NextPage ==
    \/ ServerUntouched /\ ResetClicked
    \/ ServerUntouched /\ connectWallet
    \/ ServerUntouched /\ disconnectLocal
    \/ ServerUntouched /\ generateTrustScoreCalls
    \/ ServerUntouched /\ generateTrustScoreReturns
    \/ ServerUntouched /\ submitToDaoCalls
    \/ ServerUntouched /\ submitToDaoReturns
    \/ ServerUntouched /\ verifyLedger
    \/ \E r \in Reqs : PageUntouched /\ Commit(r)
    \/ \E r \in Reqs : PageUntouched /\ MkdirSettles(r)
    \/ \E r \in Reqs : PageUntouched /\ AppendFileSettles(r)
    \/ \E r \in Reqs : PageUntouched /\ Respond(r)
    \/ PageUntouched /\ Restart
    \/ Tick

SpecPage == Init /\ [][NextPage]_vars

\* =================================================================== claims
Height(e) == Get(e, "height")
HashOf(e) == Get(e, "hash")
PrevHashOf(e) == Get(e, "prevHash")

IsPrefix(s, t) == Len(s) <= Len(t) /\ \A i \in 1..Len(s) : s[i] = t[i]

\* a step of the running process that pushes one entry
CommitStep == epoch' = epoch /\ Len(store') = Len(store) + 1

\* the entries of data/ledger.jsonl
LedgerEntries == [i \in 1..Len(ledgerFile) |-> ledgerFile[i][2]]

\* C1: after any sequence of append requests the committed entries have the
\* heights 1, 2, ..., N in log order, N the length of the ledger.
C1_HeightsGapless ==
    \A i \in 1..Len(store) : Height(store[i]) = Num(i)

C1_Witness ==
    /\ Len(store) = 3
    /\ Height(store[3]) = Num(3)

\* C2: in every ledger state each entry after the first has prevHash equal to
\* the hash of the entry before it, and the first entry carries the ledger's
\* no-predecessor value (null in the in-memory ledger, 'GENESIS' in the file
\* ledger).
C2_PrevHashLinks ==
    /\ \A i \in 1..Len(store) :
        PrevHashOf(store[i]) = IF i = 1 THEN Null ELSE HashOf(store[i - 1])
    /\ \A i \in 1..Len(ledgerFile) :
        PrevHashOf(LedgerEntries[i]) =
            IF i = 1 THEN Str("GENESIS") ELSE HashOf(LedgerEntries[i - 1])

C2_Witness ==
    /\ Len(store) >= 1
    /\ Len(ledgerFile) >= 2
    /\ PrevHashOf(LedgerEntries[2]) = HashOf(LedgerEntries[1])

\* C3: with several append requests in flight, every commit takes its height
\* and prevHash from the entry that is the tail at the moment of the commit:
\* the new height is not the height of any committed entry and the new
\* prevHash is the hash of that tail.
C3_CommitIsAtomic ==
    [][CommitStep =>
        LET e == store'[Len(store')]
        IN  /\ \A i \in 1..Len(store) : Height(store[i]) # Height(e)
            /\ PrevHashOf(e) = IF store = <<>> THEN Null ELSE HashOf(store[Len(store)])]_vars

C3_Witness ==
    /\ \A r \in Reqs : req[r].pc # "idle"
    /\ Len(store) = 3
    /\ \A r \in Reqs : \E i \in 2..3 : store[i] = req[r].entry

\* C4: within one process lifetime the in-memory ledger only grows at its
\* end: every step leaves the committed entries unchanged and in place.
C4_AppendOnly ==
    [][epoch' = epoch => IsPrefix(store, store')]_vars

C4_Witness ==
    /\ Len(store) >= 2
    /\ resp # Undef
    /\ Len(Get(resp, "timeline")[2]) >= 2

\* the candidate and the window of the last verify request
Cand == Get(vreq, "entry")
Window == Get(vreq, "timeline")
Verified == vreq # Undef /\ vresp # Threw /\ Get(vresp, "ok") = Bool(TRUE)

\* C5: the hash of every committed entry is the content hash of the encoding
\* of the entry without its hash, and verify answers hashOk = true for every
\* entry submitted exactly as append returned it.
C5_HashMatchesBody ==
    /\ \A i \in 1..Len(store) :
        HashOf(store[i]) = sha256Hex(JSONstringify(Without(store[i], "hash")))
    /\ (vreq # Undef /\ Cand \in WireEntries) =>
            /\ Verified
            /\ Get(vresp, "hashOk") = Bool(TRUE)

C5_Witness ==
    /\ resp # Undef
    /\ vreq # Undef
    /\ Cand = Get(resp, "entry")
    /\ Get(Cand, "score") = Null
    /\ Get(vresp, "hashOk") = Bool(TRUE)

Lines(f) == {f[i] : i \in 1..Len(f)}

\* the submit route keeps an entry and answers when the write fails: the
\* file flag of a request tells whether its line reached the file
SubmitSwallowsWriteFailure ==
    [][\A r \in Reqs :
        /\ (req[r].pc = "appendFile" /\ req'[r].pc = "respond") =>
                /\ store' = store
                /\ req'[r].fileOk = (trustFile' = Append(trustFile, JSONstringify(req[r].entry)))
                /\ ~req'[r].fileOk => trustFile' = trustFile
        /\ (req[r].pc = "mkdir" /\ req'[r].pc = "respond") =>
                /\ store' = store /\ trustFile' = trustFile /\ ~req'[r].fileOk
        /\ (req[r].pc = "respond" /\ req'[r].pc = "idle" /\ epoch' = epoch) =>
                /\ store' = store
                /\ Get(resp', "ok") = Bool(TRUE)
                /\ Get(resp', "entry") = Render(req[r].entry)
                /\ Get(Get(resp', "storage"), "file") = Bool(req[r].fileOk)]_vars

\* C6: no append fails because the durable write failed: the ledger route
\* never raises, and a response of the submit route is a success whose file
\* flag is true only when the entry's line is in the file.
C6_AppendNeverFailsOnWrite ==
    /\ fresp # Threw
    /\ resp # Undef =>
        /\ Get(resp, "ok") = Bool(TRUE)
        /\ Get(Get(resp, "storage"), "file") = Bool(TRUE) =>
                <<"json", Get(resp, "entry")>> \in Lines(trustFile)

\* C7: the first append after a restart with a non-empty durable log takes
\* its height and prevHash from the last persisted entry.
C7_RestartContinuesChain ==
    [][(CommitStep /\ store = <<>> /\ trustFile # <<>>) =>
        /\ Height(store'[1]) = Plus(Height(GetLastEntry(trustFile)), Num(1))
        /\ PrevHashOf(store'[1]) = HashOf(GetLastEntry(trustFile))]_vars

\* loadLast returns an entry with the height and hash of e, whichever of the
\* two log files it is applied to
LoadLastGives(files, e) ==
    \E f \in files :
        /\ Height(GetLastEntry(f)) = Height(e)
        /\ HashOf(GetLastEntry(f)) = HashOf(e)

\* C8: when the process restarts and the line of the last in-memory entry
\* was written, loadLast returns an entry with that entry's height and hash.
C8_RoundTrip ==
    [][(epoch' = epoch + 1 /\ store # <<>>
            /\ JSONstringify(store[Len(store)]) \in Lines(trustFile)) =>
        LoadLastGives({trustFile', ledgerFile'}, store[Len(store)])]_vars

\* C9: for a candidate of height > 1 and a non-empty window, chainOk is true
\* exactly when the window holds an entry whose hash is the candidate's
\* prevHash and whose height is the candidate's height - 1.
C9_ChainNeedsHeight ==
    (/\ Verified
     /\ IsNum(Height(Cand)) /\ Height(Cand)[2] > 1
     /\ IsArr(Window) /\ Len(Window[2]) > 0) =>
        Get(vresp, "chainOk") =
            Bool(\E i \in 1..Len(Window[2]) :
                    /\ HashOf(Window[2][i]) = PrevHashOf(Cand)
                    /\ Height(Window[2][i]) = Minus(Height(Cand), Num(1)))

\* C10: for a candidate of height 1, chainOk is true exactly when its
\* prevHash is the no-predecessor value, whatever the window.
C10_GenesisNeedsSentinel ==
    (Verified /\ Height(Cand) = Num(1)) =>
        Get(vresp, "chainOk") = Bool(PrevHashOf(Cand) = Null)

\* C11: with an empty window or no window, chainOk is true only for a
\* candidate without a prevHash; a candidate that has a prevHash gets
\* chainOk = false and valid = false from both.
C11_NoWindowNeedsNoPrevHash ==
    (Verified /\ Window \in {Undef, Arr(<<>>)}) =>
        /\ Get(vresp, "chainOk") = Bool(TRUE) => PrevHashOf(Cand) \in {Null, Undef}
        /\ PrevHashOf(Cand) \notin {Null, Undef} =>
                /\ Get(vresp, "chainOk") = Bool(FALSE)
                /\ Get(vresp, "valid") = Bool(FALSE)

HashReasons == {Str("Hash mismatch"), Str("hash invalid (mock)")}
ChainReasons == {Str("prevHash not found in timeline"), Str("chain linkage invalid (mock)")}

\* the four fields of a verification result agree with each other
ResultConsistent(r) ==
    LET valid == Get(r, "valid") = Bool(TRUE)
        hashOk == Get(r, "hashOk") = Bool(TRUE)
        chainOk == Get(r, "chainOk") = Bool(TRUE)
        reason == Get(r, "reason")
    IN  /\ Get(r, "valid") \in {Bool(TRUE), Bool(FALSE)}
        /\ Get(r, "hashOk") \in {Bool(TRUE), Bool(FALSE)}
        /\ Get(r, "chainOk") \in {Bool(TRUE), Bool(FALSE)}
        /\ valid = (hashOk /\ chainOk)
        /\ (reason \in {Null, Undef}) = valid
        /\ ~hashOk => reason \in HashReasons
        /\ reason \in ChainReasons => (hashOk /\ ~chainOk)
        /\ ~valid => reason \in HashReasons \cup ChainReasons

\* C12: in every result of the verify route and of verifyMock, valid is
\* hashOk and chainOk, the reason is empty exactly when valid, a failed hash
\* check is reported as the hash mismatch also when the chain check failed,
\* and the chain reason appears only when hashOk and not chainOk.
C12_ValidAndReason ==
    /\ Verified => ResultConsistent(vresp)
    /\ mresp # Undef => ResultConsistent(mresp)

C12_Witness ==
    /\ Verified
    /\ Get(vresp, "hashOk") = Bool(FALSE)
    /\ Get(vresp, "chainOk") = Bool(FALSE)
    /\ Get(vresp, "reason") = Str("Hash mismatch")

BodyFields ==
    {"kind", "ledgerId", "height", "prevHash", "address", "score", "daoResult", "createdAt"}

\* c is the committed entry w with one body field changed and w's hash kept
IsTamperOf(c, w) ==
    \E k \in BodyFields :
        /\ Get(c, k) # Get(w, k)
        /\ c = SetField(w, k, Get(c, k))

TamperedCommitted(c) == \E w \in WireEntries : IsTamperOf(c, w)

Honest(c) == c \in WireEntries

\* C14: every entry exactly as append returned it verifies: the genesis entry
\* with any window, an entry of height i > 1 with any window that holds the
\* committed entry of height i - 1, and so the entry of a response with the
\* timeline of the same response.
C14_HonestEntriesVerify ==
    /\ (vreq # Undef /\ Honest(Cand) /\ Height(Cand) = Num(1)) =>
            Verified /\ Get(vresp, "valid") = Bool(TRUE)
    /\ (/\ vreq # Undef /\ Honest(Cand) /\ Height(Cand) # Num(1)
        /\ IsArr(Window)
        /\ \E i \in 1..Len(Window[2]) :
                /\ Honest(Window[2][i])
                /\ Height(Window[2][i]) = Minus(Height(Cand), Num(1))) =>
            Verified /\ Get(vresp, "valid") = Bool(TRUE)
    /\ (/\ vreq # Undef /\ resp # Undef
        /\ Cand = Get(resp, "entry") /\ Window = Get(resp, "timeline")) =>
            Verified /\ Get(vresp, "valid") = Bool(TRUE)

\* C15: a verify call leaves the in-memory ledger and both log files exactly
\* as they were, whatever it was sent and whatever it answers.
C15_VerifyIsReadOnly ==
    [][vreq' # vreq =>
        /\ store' = store
        /\ trustFile' = trustFile
        /\ ledgerFile' = ledgerFile
        /\ ledgerFileExists' = ledgerFileExists]_vars

C15_Witness ==
    /\ vreq # Undef
    /\ Get(vresp, "valid") = Bool(TRUE)
    /\ Cand = Render(store[Len(store)])
    /\ Len(store) >= 2
    /\ Len(trustFile) >= 1

\* if (!entry || !entry.hash): the candidate has a hash that is not empty
HasHash(c) == IsObj(c) /\ ~Falsy(Get(c, "hash"))

Rejection ==
    Obj(<< <<"ok", Bool(FALSE)>>, <<"valid", Bool(FALSE)>>,
           <<"reason", Str("Missing entry/hash")>> >>)

\* C16: verify never raises.  A candidate with a hash gets a normal result
\* with valid, hashOk, chainOk and reason, whatever the window and whether or
\* not the checks pass; a missing candidate or one without a hash gets the
\* explicit rejection.
C16_VerifyNeverRaises ==
    vreq # Undef =>
        /\ vresp # Threw
        /\ HasHash(Cand) =>
                /\ Get(vresp, "ok") = Bool(TRUE)
                /\ \A k \in {"valid", "hashOk", "chainOk"} :
                        Get(vresp, k) \in {Bool(TRUE), Bool(FALSE)}
                /\ Get(vresp, "reason") # Undef
        /\ ~HasHash(Cand) => vresp = Rejection

\* the same field names with the same values, in whatever order
SameContent(a, b) ==
    /\ IsObj(a) /\ IsObj(b) /\ Len(a[2]) = Len(b[2])
    /\ \A i \in 1..Len(a[2]) : Get(b, a[2][i][1]) = a[2][i][2]

\* the ledger route hashes stableStringify, which sorts the keys
LedgerHashIgnoresOrder ==
    \A i \in 1..Len(ledgerFile) :
        HashOf(LedgerEntries[i]) =
            sha256HexPlain(stableStringify(Reversed(Without(LedgerEntries[i], "hash"))))

\* C17: the hash does not depend on the order of the fields: the body of a
\* committed entry listed in another order has the hash append computed, and
\* verify recomputes that hash for a candidate that lists the fields of a
\* committed entry in another order.
C17_EncodingIgnoresOrder ==
    /\ \A i \in 1..Len(store) :
        HashOf(store[i]) = sha256Hex(JSONstringify(Reversed(Without(store[i], "hash"))))
    /\ (vreq # Undef /\ \E w \in WireEntries : SameContent(Cand, w)) =>
            /\ Verified
            /\ Get(vresp, "recomputed") = Get(Cand, "hash")
            /\ Get(vresp, "hashOk") = Bool(TRUE)

\* the line of the entry request r committed is in the file
Written(r) == req[r].fileOk /\ JSONstringify(req[r].entry) \in Lines(trustFile)

\* C18: a record is written only for an entry that is already committed, one
\* record per write; in the first process lifetime the file holds only
\* committed entries, each at most once; and the entry of every request is
\* eventually in the file unless the storage stops being writable or the
\* process restarts first.
C18_MirroredAfterCommit ==
    /\ [][trustFile' # trustFile =>
            \E r \in Reqs :
                /\ req[r].pc = "appendFile"
                /\ \E i \in 1..Len(store) : store[i] = req[r].entry
                /\ trustFile' = Append(trustFile, JSONstringify(req[r].entry))]_vars
    /\ [](epoch = 0 =>
            /\ \A k \in 1..Len(trustFile) :
                    \E i \in 1..Len(store) : trustFile[k] = JSONstringify(store[i])
            /\ \A k, l \in 1..Len(trustFile) : trustFile[k] = trustFile[l] => k = l)
    /\ \A r \in Reqs : \A k \in 0..MaxRestarts :
            (req[r].pc = "mkdir" /\ epoch = k) ~>
                (Written(r) \/ ~writable \/ epoch > k)

C18_Witness ==
    /\ epoch = 1
    /\ Len(trustFile) = 3
    /\ Len(store) = 1
    /\ trustFile[3] = JSONstringify(store[1])
    /\ \E r \in Reqs : req[r].pc = "respond" /\ Written(r)

\* C19: the log files only grow at their end: every step of every operation
\* (append, reading the last entry, listing the recent entries, creating the
\* file when it is missing) leaves the lines already written in place.
C19_LogFilesAppendOnly ==
    [][IsPrefix(trustFile, trustFile') /\ IsPrefix(ledgerFile, ledgerFile')]_vars

C19_Witness ==
    /\ Len(ledgerFile) = 2
    /\ IsArr(Get(fresp, "items"))
    /\ Len(Get(fresp, "items")[2]) = 2

Min(a, b) == IF a <= b THEN a ELSE b

\* a step in which the submit route answers
RespondStep == resp' # resp /\ epoch' = epoch

\* a step in which GET of the ledger route answers with a list
ListStep == fresp' # fresp /\ IsArr(Get(fresp', "items"))

\* C20: a timeline holds the last min(20, N) entries of the N committed ones,
\* oldest first, and cutting it changes neither the ledger nor the files: the
\* timeline of a submit response is the entries of heights N - min(20, N) + 1
\* to N of the store, the list of the ledger route's GET the last min(20, N)
\* lines of its file.
C20_TimelineIsLastN ==
    /\ [][RespondStep =>
            LET tl == Get(resp', "timeline")[2]
                N == Len(store)
                m == Min(TimelineN, N)
            IN  /\ Len(tl) = m
                /\ \A i \in 1..m :
                        /\ tl[i] = Render(store[N - m + i])
                        /\ Height(tl[i]) = Num(N - m + i)
                /\ store' = store
                /\ trustFile' = trustFile]_vars
    /\ [][ListStep =>
            LET items == Get(fresp', "items")[2]
                N == Len(ledgerFile)
                m == Min(LedgerLastN, N)
            IN  /\ Len(items) = m
                /\ \A i \in 1..m : items[i] = ledgerFile[N - m + i][2]
                /\ ledgerFile' = ledgerFile]_vars

C20_Witness ==
    /\ Len(store) = 22
    /\ resp # Undef
    /\ Len(Get(resp, "timeline")[2]) = 20
    /\ Height(Get(resp, "timeline")[2][1]) = Num(3)
    /\ Height(Get(resp, "timeline")[2][20]) = Num(22)

\* an entry with every field of a committed entry and the hash of its body
FullyFormed(e) ==
    /\ IsObj(e)
    /\ [i \in 1..Len(e[2]) |-> e[2][i][1]] =
            << "kind", "ledgerId", "height", "prevHash", "address", "score",
               "daoResult", "createdAt", "hash" >>
    /\ HashOf(e) = sha256Hex(JSONstringify(Without(e, "hash")))

\* C21: every timeline a response carries, whatever the interleaving of the
\* requests, is a run of fully formed entries with consecutive heights, each
\* linked to the one before it, that ends at the tail the store has at the
\* moment the timeline is cut.
C21_TimelineIsConsistentRun ==
    [][RespondStep =>
        LET tl == Get(resp', "timeline")[2]
        IN  /\ Len(tl) >= 1
            /\ \A i \in 1..Len(tl) : FullyFormed(tl[i])
            /\ \A i \in 2..Len(tl) :
                    /\ Height(tl[i]) = Plus(Height(tl[i - 1]), Num(1))
                    /\ PrevHashOf(tl[i]) = HashOf(tl[i - 1])
            /\ tl[Len(tl)] = Render(store[Len(store)])]_vars

C21_Witness ==
    /\ resp # Undef
    /\ Height(Get(resp, "entry")) = Num(1)
    /\ Len(Get(resp, "timeline")[2]) = 3
    /\ \E r \in Reqs : req[r].pc = "mkdir"

\* the heights of the records of .data/trust_ledger.jsonl, in file order
FileHeights == [k \in 1..Len(trustFile) |-> Height(trustFile[k][2])]

\* C26: within one process lifetime the records of the file are in increasing
\* height order, the order of the store, with some entries missing.
C26_FileKeepsMemoryOrder ==
    epoch = 0 =>
        \A k, l \in 1..Len(trustFile) :
            k < l => FileHeights[k][2] < FileHeights[l][2]

\* C27: the timeline of a response ends with the entry of that response.
C27_TimelineEndsWithOwnEntry ==
    resp # Undef =>
        LET tl == Get(resp, "timeline")[2]
        IN  Len(tl) >= 1 /\ tl[Len(tl)] = Get(resp, "entry")

\* C28: the ledgers and the verifier agree on one no-predecessor value: the
\* first entry of the store and the first entry of data/ledger.jsonl carry
\* the same prevHash, and the verify route takes the prevHash of either as
\* 'no predecessor' (chainOk without a predecessor in the window).
C28_OneSentinel ==
    /\ (store # <<>> /\ ledgerFile # <<>>) =>
            PrevHashOf(store[1]) = PrevHashOf(LedgerEntries[1])
    /\ store # <<>> => ChainOk(Render(store[1]), Arr(<<>>))
    /\ ledgerFile # <<>> => ChainOk(LedgerEntries[1], Arr(<<>>))

\* the instant an entry's createdAt denotes
CreatedAt(e) == Get(e, "createdAt")[2]

LedgerPostStep == fresp' # fresp /\ Get(fresp', "entry") # Undef

LastLineCorrupt == ledgerFile # <<>> /\ ~IsJson(ledgerFile[Len(ledgerFile)])

\* C24: when the last record of the ledger file cannot be parsed, reading the
\* last entry gives no entry (a value, not an exception), and the entry the
\* next POST stores carries the no-predecessor value 'GENESIS' as prevHash,
\* also when earlier records of the file are valid.
C24_CorruptTailStartsOver ==
    /\ [](LastLineCorrupt => GetLastEntry(ledgerFile) = Null)
    /\ [][(LedgerPostStep /\ LastLineCorrupt) =>
            PrevHashOf(Get(fresp', "entry")) = Str("GENESIS")]_vars

C24_Witness ==
    /\ Len(ledgerFile) = 2
    /\ IsJson(ledgerFile[1])
    /\ ledgerFile[2] = MergedLine
    /\ Get(fresp, "entry") # Undef
    /\ PrevHashOf(Get(fresp, "entry")) = Str("GENESIS")

\* C25: the entry a POST of the ledger route stores is linked to the last
\* line of the file that parses, 'GENESIS' when no line parses.
C25_TailIsLastParsedLine ==
    [][LedgerPostStep =>
        PrevHashOf(Get(fresp', "entry")) =
            LedgerPrevHash(GetLastEntry_LastParsed(ledgerFile))]_vars

\* C30: every score a scoring route answers with is a number from 0 to 100,
\* whatever the address, the account and the state of the RPC are; the submit
\* route stores the score of the request as it is, below 0 and above 100 too.
C30_ScorersClampAppendDoesNot ==
    /\ sresp # Undef =>
            /\ IsNum(Get(sresp, "score"))
            /\ Get(sresp, "score")[2] \in 0..100
    /\ \A i \in 1..Len(store) :
            \E body \in AnyScoreBodies : Get(store[i], "score") = Get(body, "score")

C30_Witness ==
    /\ sresp # Undef
    /\ Get(sresp, "score") = Num(100)
    /\ \E i, j \in 1..Len(store) :
            /\ Get(store[i], "score") = Num(150)
            /\ Get(store[j], "score") = Num(-5)

\* The page appends an entry to its timeline.
PageAppendStep == Len(page'.timeline) = Len(page.timeline) + 1

IsGenesis(e) == Height(e) = Num(1) /\ PrevHashOf(e) = Null

HeightOnes(entries) ==
    Cardinality({i \in 1..Len(entries) : Height(entries[i]) = Num(1)})

\* C22: an append to an empty ledger gives the genesis entry, height 1 and
\* prevHash null, in the store of the submit route and in the page's
\* timeline; a store (from process start to restart) and a timeline (from
\* one reset to the next) never hold more than one entry of height 1.
C22_OneGenesisPerInstance ==
    /\ [][(CommitStep /\ store = <<>>) => IsGenesis(store'[1])]_vars
    /\ [][(PageAppendStep /\ page.timeline = <<>>) => IsGenesis(page'.timeline[1])]_vars
    /\ [](HeightOnes(store) <= 1)
    /\ [](HeightOnes(page.timeline) <= 1)

C22_Witness ==
    /\ page.minted = 3
    /\ Len(page.timeline) = 2
    /\ IsGenesis(page.timeline[1])
    /\ Height(page.timeline[2]) = Num(2)

\* The page runs resetLocalState, from the reset button or from disconnect.
ResetStep ==
    /\ page' # page
    /\ page'.log \in {"Local state reset.", "Disconnected (local)."}

\* C23: a reset leaves the page's timeline empty and its displayed entry null,
\* the entry appended next has height 1 (the length of the timeline plus
\* one), and neither log file changes; a restart of the server empties the
\* store of the submit route and leaves both files as they were.
C23_ResetDiscardsMemoryOnly ==
    /\ [][ResetStep =>
            /\ page'.timeline = <<>>
            /\ page'.ledger = Null
            /\ trustFile' = trustFile
            /\ ledgerFile' = ledgerFile]_vars
    /\ [][PageAppendStep =>
            Height(page'.timeline[Len(page'.timeline)]) = Num(Len(page.timeline) + 1)]_vars
    /\ [][epoch' # epoch =>
            /\ store' = <<>>
            /\ trustFile' = trustFile
            /\ ledgerFile' = ledgerFile]_vars

C23_Witness ==
    /\ page.log = "Local state reset."
    /\ page.timeline = <<>>
    /\ page.ledger = Null
    /\ page.minted = 2
    /\ page.daoCall # Undef

\* The page runs verifyLedger.
VerifyLedgerStep ==
    /\ page' # page
    /\ page'.log \in {"Verify: OK", "Verify: not OK"}

\* the heights of the timeline are 1, 2, ... and every entry carries the hash
\* of the one before it, the first one null
PageTimelineLinked ==
    \A i \in 1..Len(page.timeline) :
        /\ Height(page.timeline[i]) = Num(i)
        /\ PrevHashOf(page.timeline[i]) =
                IF i = 1 THEN Null ELSE HashOf(page.timeline[i - 1])

\* C31: whatever the page has done (generateTrustScore, submitToDao,
\* resetLocalState, disconnectLocal, verifyLedger, with calls in flight), the
\* displayed entry is null exactly when the timeline is empty and is the
\* timeline's last element otherwise, the timeline is linked by height and
\* prevHash, and every run of verifyLedger reports ok = true.
C31_PageLedgerConsistent ==
    /\ []((page.ledger = Null) <=> (page.timeline = <<>>))
    /\ [](page.timeline # <<>> => page.ledger = page.timeline[Len(page.timeline)])
    /\ []PageTimelineLinked
    /\ [][VerifyLedgerStep => Get(page'.verify, "ok") = Bool(TRUE)]_vars

C31_Witness ==
    /\ page.log = "Verify: OK"
    /\ page.minted = 3
    /\ Len(page.timeline) = 1
    /\ page.ledger = page.timeline[1]
    /\ page.address = Null
    /\ page.score = Null

====
